---- MODULE Spec2Model ----
(***************************************************************************)
(* Model of the IEEE754 bit-field visualiser (src/src/lib.rs): the Model   *)
(* struct (sign bit, exponent bits, significand bits), the update handler  *)
(* for the three messages, and Model::value, the decoder to a binary64.    *)
(*                                                                         *)
(* Words are 64 bits wide, so that shifts, ors, wrapping additions and the *)
(* final f64::from_bits are the 64-bit operations of the code.             *)
(***************************************************************************)
EXTENDS Integers, Sequences, FiniteSets, TLC

VARIABLES sign_bit, exponent_bits, significand_bits, shown, rendered,
          last, prev, last2, prev2, nmsgs

vars == <<sign_bit, exponent_bits, significand_bits, shown, rendered,
          last, prev, last2, prev2, nmsgs>>

(***************************************************************************)
(* Program constants, after two wrong values of them that the properties   *)
(* below must tell from the right ones.                                    *)
(***************************************************************************)
\* A wrong constant: ten exponent bits, so that the sign lands on bit 62.
NarrowExponentBits == 11 - 1

\* A wrong constant: a bias of 2^10 instead of 2^10 - 1.
OffByOneBias == 1023 + 1

BINARY_64_SIGNIFICAND_BITS == 52

BINARY_64_EXPONENT_BITS == 11

BINARY_64_BIAS == 1023

U64_BITS == 64

(***************************************************************************)
(* Bounds of the exploration.                                              *)
(***************************************************************************)
\* Messages handled in a run of the application.
MaxMsgs == 4

\* Widest region whose contents are enumerated in full when the decoder is
\* checked on its own; wider regions take their contents from families.
MaxFullWidth == 4

(***************************************************************************)
(* 64-bit unsigned words.  A u64 is the set of the positions (0 = least    *)
(* significant, 63 = most significant) of its 1 bits.                      *)
(***************************************************************************)
Repeat(x, n) == [i \in 1..n |-> x]

\* The u64 whose value is the small natural n (n < 2^30).
U64(n) == {i \in 0..29 : (n \div 2^i) % 2 = 1}

\* v << k for 0 <= k < 64: the top k bits fall off, zeros enter at the bottom.
Shl(v, k) == {i + k : i \in {j \in v : j + k < U64_BITS}}

\* a << k as Rust computes it: a shift amount outside 0..63 panics when
\* overflow checks are on and is masked to its low six bits when they are off.
shl(v, k) == [bits |-> Shl(v, k % U64_BITS), overflow |-> k \notin 0..(U64_BITS - 1)]

BitOr(a, b) == a \cup b

BitNot(a) == (0..(U64_BITS - 1)) \ a

\* The carry into position i of a + b + c0: either the carry-in c0 propagates
\* through every position below i, or some position j below i generates a
\* carry (both bits set) that every position between j and i propagates.
Carry(a, b, c0, i) ==
    \/ c0 /\ \A k \in 0..(i - 1) : k \in a \/ k \in b
    \/ \E j \in 0..(i - 1) :
          /\ j \in a /\ j \in b
          /\ \A k \in (j + 1)..(i - 1) : k \in a \/ k \in b

\* The low 64 bits of a + b + c0.
Sum(a, b, c0) ==
    {i \in 0..(U64_BITS - 1) : ((i \in a) # (i \in b)) # Carry(a, b, c0, i)}

\* a + b on u64: the wrapped sum, and whether it overflowed.
add(a, b) == [bits |-> Sum(a, b, FALSE), overflow |-> Carry(a, b, FALSE, U64_BITS)]

\* a - b on u64 (a + ~b + 1): the wrapped difference, and whether it underflowed.
sub(a, b) ==
    [bits |-> Sum(a, BitNot(b), TRUE), overflow |-> ~Carry(a, BitNot(b), TRUE, U64_BITS)]

\* The fold reading the bits least significant first.
fold_lsb_first(bits) ==
    {k - 1 : k \in {j \in DOMAIN bits : bits[j] /\ j - 1 < U64_BITS}}

\* bits.iter().fold(0, |acc, &b| (acc << 1) | (if b { 1 } else { 0 })): each
\* element enters at position 0 and is shifted left once for every element
\* after it, so element k of n (from 1) ends at position n - k; what is
\* shifted past position 63 is lost.
fold(bits) ==
    {Len(bits) - k : k \in {j \in DOMAIN bits : bits[j] /\ Len(bits) - j < U64_BITS}}

(***************************************************************************)
(* The binary64 constants the decoder returns for special encodings.       *)
(***************************************************************************)
\* 0x7FF0_0000_0000_0000
F64_INFINITY == 52..62

\* 0xFFF0_0000_0000_0000
F64_NEG_INFINITY == 52..63

\* 0x7FF8_0000_0000_0000
F64_NAN == 51..62

(***************************************************************************)
(* Model and init.                                                         *)
(***************************************************************************)
Model(s, e, m) == [sign_bit |-> s, exponent_bits |-> e, significand_bits |-> m]

model == Model(sign_bit, exponent_bits, significand_bits)

init ==
    LET exponent_len == 11
        significand_len == 52
    IN  Model(FALSE, Repeat(FALSE, exponent_len), Repeat(FALSE, significand_len))

(***************************************************************************)
(* Model::value.  The result is the bit pattern of the returned f64, with  *)
(* overflow telling whether an arithmetic overflow check would have fired  *)
(* on the way (a panic in a build with overflow checks; the wrapped        *)
(* pattern in bits otherwise).                                             *)
(***************************************************************************)
\* The special arm testing the significand with all() instead of any().
special_all(m) ==
    IF \A i \in DOMAIN m.significand_bits : m.significand_bits[i]
    THEN F64_NAN
    ELSE IF m.sign_bit THEN F64_NEG_INFINITY ELSE F64_INFINITY

\* The (true, _) arm: the exponent bits are all set.
special(m) ==
    IF \E i \in DOMAIN m.significand_bits : m.significand_bits[i]
    THEN F64_NAN
    ELSE IF m.sign_bit THEN F64_NEG_INFINITY ELSE F64_INFINITY

\* The bias computed as (1 << len) - 1.
field_bias_wide(len) ==
    LET one_shl == shl(U64(1), len)
        minus_one == sub(one_shl.bits, U64(1))
    IN  [bits |-> minus_one.bits, overflow |-> one_shl.overflow \/ minus_one.overflow]

\* let bias: u64 = (1 << (self.exponent_bits.len() - 1)) - 1
field_bias(len) ==
    LET one_shl == shl(U64(1), len - 1)
        minus_one == sub(one_shl.bits, U64(1))
    IN  [bits |-> minus_one.bits, overflow |-> one_shl.overflow \/ minus_one.overflow]

\* The (false, normal) arm: the three terms that are or-ed into the argument
\* of f64::from_bits, and whether computing them overflowed.
terms(m) ==
    LET normal == \E i \in DOMAIN m.exponent_bits : m.exponent_bits[i]
        bias == field_bias(Len(m.exponent_bits))
        exp == fold(m.exponent_bits)
        significand == fold(m.significand_bits)
        sign == U64(IF m.sign_bit THEN 1 ELSE 0)
        sign_term == shl(sign, BINARY_64_EXPONENT_BITS + BINARY_64_SIGNIFICAND_BITS)
        rebias == sub(U64(BINARY_64_BIAS), bias.bits)
        sum == add(exp, rebias.bits)
        exp_shl == shl(sum.bits, BINARY_64_SIGNIFICAND_BITS)
        sig_len == Len(m.significand_bits)
        sig_term == shl(significand, BINARY_64_SIGNIFICAND_BITS - sig_len)
    IN  [sign |-> sign_term.bits,
         exp |-> IF normal THEN exp_shl.bits ELSE U64(0),
         sig |-> sig_term.bits,
         overflow |->
            \/ bias.overflow
            \/ sign_term.overflow
            \/ normal /\ (rebias.overflow \/ sum.overflow \/ exp_shl.overflow)
            \/ sig_len > BINARY_64_SIGNIFICAND_BITS
            \/ sig_term.overflow]

value(m) ==
    IF \A i \in DOMAIN m.exponent_bits : m.exponent_bits[i]
    THEN [bits |-> special(m), overflow |-> FALSE]
    ELSE LET t == terms(m)
         IN  [bits |-> BitOr(BitOr(t.sign, t.exp), t.sig), overflow |-> t.overflow]

(***************************************************************************)
(* update.                                                                 *)
(***************************************************************************)
\* A resize that shrinks by dropping the front of the vector.
resize_front(v, new_len, x) ==
    IF new_len <= Len(v)
    THEN SubSeq(v, Len(v) - new_len + 1, Len(v))
    ELSE v \o Repeat(x, new_len - Len(v))

\* Vec::resize(new_len, value)
resize(v, new_len, x) ==
    IF new_len <= Len(v)
    THEN SubSeq(v, 1, new_len)
    ELSE v \o Repeat(x, new_len - Len(v))

\* The chained sequence of a model, and the model a chained sequence of the
\* same layout is written back to.
Chain(m) == <<m.sign_bit>> \o m.exponent_bits \o m.significand_bits

Unchain(m, c) ==
    Model(c[1],
          SubSeq(c, 2, 1 + Len(m.exponent_bits)),
          SubSeq(c, 2 + Len(m.exponent_bits), Len(c)))

\* A toggle that clamps an index past the end to the last bit.
toggle_clamped(m, b) ==
    LET k == IF b < Len(Chain(m)) THEN b + 1 ELSE Len(Chain(m))
    IN  Unchain(m, [Chain(m) EXCEPT ![k] = ~@])

\* A toggle that sets the bit instead of flipping it.
toggle_sets(m, b) ==
    IF b < Len(Chain(m)) THEN Unchain(m, [Chain(m) EXCEPT ![b + 1] = TRUE]) ELSE m

\* A toggle that resolves the index with the widths of the initial model.
toggle_stale(m, b) ==
    LET e == Len(m.exponent_bits)
        s == Len(m.significand_bits)
    IN  IF b = 0
        THEN [m EXCEPT !.sign_bit = ~@]
        ELSE IF b <= 11
        THEN IF b <= e THEN [m EXCEPT !.exponent_bits[b] = ~@] ELSE m
        ELSE IF b - 11 <= s THEN [m EXCEPT !.significand_bits[b - 11] = ~@] ELSE m

\* iter::once(sign).chain(exponent).chain(significand).nth(b), flipped in
\* place: position b (from 0) of the chained sequence refers into the field
\* it came from.
toggle(m, b) ==
    LET chain == <<m.sign_bit>> \o m.exponent_bits \o m.significand_bits
        e == Len(m.exponent_bits)
    IN  IF b < Len(chain)
        THEN LET flipped == [chain EXCEPT ![b + 1] = ~@]
             IN  Model(flipped[1],
                       SubSeq(flipped, 2, 1 + e),
                       SubSeq(flipped, 2 + e, Len(flipped)))
        ELSE m

Msg(t, a) == [type |-> t, arg |-> a]

update(msg, m) ==
    CASE msg.type = "SetExpSize" ->
            [m EXCEPT !.exponent_bits = resize(@, msg.arg, FALSE)]
      [] msg.type = "SetSigSize" ->
            [m EXCEPT !.significand_bits = resize(@, msg.arg, FALSE)]
      [] msg.type = "ToggleBit" -> toggle(m, msg.arg)

\* view_value: let value = model.value()
view_value(m) == value(m)

(***************************************************************************)
(* The application: App::start("app", init, update, view).  Every message  *)
(* is handled by update and followed by a render of the new model.  last,  *)
(* prev, last2, prev2 record the last two messages and the models they     *)
(* were applied to; rendered tells whether shown is the value of the       *)
(* current model.                                                          *)
(***************************************************************************)
NoMsg == Msg("none", 0)

\* Widths a SetExpSize / SetSigSize message may carry: update takes any
\* usize, so the sets hold values inside 1..=11 / 1..=52 and just outside.
ExpSizes == {0, 1, 4, BINARY_64_EXPONENT_BITS, BINARY_64_EXPONENT_BITS + 1}

SigSizes == {0, 1, BINARY_64_SIGNIFICAND_BITS, BINARY_64_SIGNIFICAND_BITS + 1}

\* Flat indices a ToggleBit message may carry in model m: the sign bit, the
\* first exponent bit, index 5, the first and the last significand bit, and
\* the first index past the end.
ToggleIndices(m) ==
    LET e == Len(m.exponent_bits)
        s == Len(m.significand_bits)
    IN  {0, 1, 5, e + 1, e + s, e + s + 1}

Handle(msg) ==
    LET m == update(msg, model)
    IN  /\ nmsgs < MaxMsgs
        /\ sign_bit' = m.sign_bit
        /\ exponent_bits' = m.exponent_bits
        /\ significand_bits' = m.significand_bits
        /\ shown' = view_value(m)
        /\ rendered' = TRUE
        /\ last' = msg
        /\ prev' = model
        /\ last2' = last
        /\ prev2' = prev
        /\ nmsgs' = nmsgs + 1

SetExpSize == \E n \in ExpSizes : Handle(Msg("SetExpSize", n))

SetSigSize == \E n \in SigSizes : Handle(Msg("SetSigSize", n))

ToggleBit == \E i \in ToggleIndices(model) : Handle(Msg("ToggleBit", i))

Init ==
    /\ sign_bit = init.sign_bit
    /\ exponent_bits = init.exponent_bits
    /\ significand_bits = init.significand_bits
    /\ shown = view_value(init)
    /\ rendered = TRUE
    /\ last = NoMsg
    /\ prev = init
    /\ last2 = NoMsg
    /\ prev2 = init
    /\ nmsgs = 0

Next == SetExpSize \/ SetSigSize \/ ToggleBit

Spec == Init /\ [][Next]_vars

(***************************************************************************)
(* The decoder on its own: a model of any valid widths, with bit contents  *)
(* drawn from families that hold the boundary encodings of each region    *)
(* (and every content of a narrow region), is rendered once.  Before the render, shown still holds the value of    *)
(* the initial model.                                                      *)
(***************************************************************************)
OneHot(n, k) == [i \in 1..n |-> i = k]

OneCold(n, k) == [i \in 1..n |-> i # k]

\* Every content of a region of n bits.
AllContents(n) == [1..n -> BOOLEAN]

\* All false, all true, exactly one bit true, exactly one bit false; every
\* content for a narrow region.
ExpContents(e) ==
    {Repeat(FALSE, e), Repeat(TRUE, e)}
        \cup {OneHot(e, k) : k \in 1..e} \cup {OneCold(e, k) : k \in 1..e}
        \cup (IF e <= MaxFullWidth THEN AllContents(e) ELSE {})

\* All false, all true, only the first or the last bit true, all but the
\* last bit true; every content for a narrow region.
SigContents(s) ==
    {Repeat(FALSE, s), Repeat(TRUE, s), OneHot(s, 1), OneHot(s, s), OneCold(s, s)}
        \cup (IF s <= MaxFullWidth THEN AllContents(s) ELSE {})

InitDecode ==
    /\ sign_bit \in BOOLEAN
    /\ \E e \in 1..BINARY_64_EXPONENT_BITS : exponent_bits \in ExpContents(e)
    /\ \E s \in 1..BINARY_64_SIGNIFICAND_BITS : significand_bits \in SigContents(s)
    /\ shown = view_value(init)
    /\ rendered = FALSE
    /\ last = NoMsg
    /\ prev = init
    /\ last2 = NoMsg
    /\ prev2 = init
    /\ nmsgs = 0

Render ==
    /\ ~rendered
    /\ shown' = view_value(model)
    /\ rendered' = TRUE
    /\ UNCHANGED <<sign_bit, exponent_bits, significand_bits,
                   last, prev, last2, prev2, nmsgs>>

NextDecode == Render

SpecDecode == InitDecode /\ [][NextDecode]_vars

(***************************************************************************)
(* Vocabulary of the properties.  Widths and bit numbers are written out,  *)
(* so that the properties do not move with the definitions above.          *)
(***************************************************************************)
AllTrue(bits) == \A i \in DOMAIN bits : bits[i]

AnyTrue(bits) == \E i \in DOMAIN bits : bits[i]

ValidWidths == Len(exponent_bits) \in 1..11 /\ Len(significand_bits) \in 1..52

NativeWidths == Len(exponent_bits) = 11 /\ Len(significand_bits) = 52

TotalBits(m) == 1 + Len(m.exponent_bits) + Len(m.significand_bits)

\* The unsigned reading of a bit sequence, most significant bit first.
RECURSIVE Raw(_)
Raw(bits) ==
    IF bits = <<>>
    THEN 0
    ELSE 2 * Raw(SubSeq(bits, 1, Len(bits) - 1)) + (IF bits[Len(bits)] THEN 1 ELSE 0)

\* The binary digits of a natural below 2^11, as bit positions.
Digits(x) == {i \in 0..10 : (x \div 2^i) % 2 = 1}

\* The pattern sgn * 2^63 + x * 2^52 + sig_raw * 2^(52 - s), for x in 0..2047
\* and sig the s <= 52 significand bits, most significant first.
Pack(sgn, x, sig) ==
    (IF sgn THEN {63} ELSE {})
        \cup {52 + i : i \in Digits(x)}
        \cup {52 - k : k \in {j \in DOMAIN sig : sig[j]}}

\* The exponent field the properties expect for the current model.
ExpectedField ==
    LET exp_raw == Raw(exponent_bits)
    IN  IF exp_raw = 0
        THEN 0
        ELSE exp_raw - (2^(Len(exponent_bits) - 1) - 1) + 1023

\* The 64 bits sign || exponent || significand of a model of native widths,
\* read most significant bit first.
NativePattern ==
    LET c == <<sign_bit>> \o exponent_bits \o significand_bits
    IN  {64 - k : k \in {j \in DOMAIN c : c[j]}}

ExpFieldOf(p) == p \cap (52..62)

SigFieldOf(p) == p \cap (0..51)

IsNaN(p) == ExpFieldOf(p) = 52..62 /\ SigFieldOf(p) # {}

IsPlusInf(p) == p = 52..62

IsMinusInf(p) == p = 52..63

IsNormalF64(p) == ExpFieldOf(p) # {} /\ ExpFieldOf(p) # 52..62

\* new is old resized to n with false: length n, the common prefix kept,
\* everything from the old length on false.
ResizedTo(old, new, n) ==
    /\ Len(new) = n
    /\ \A i \in 1..n : new[i] = IF i <= Len(old) THEN old[i] ELSE FALSE

\* The model m with exactly the bit at flat index i flipped.
FlippedAt(m, i) ==
    LET e == Len(m.exponent_bits)
    IN  IF i = 0
        THEN Model(~m.sign_bit, m.exponent_bits, m.significand_bits)
        ELSE IF i <= e
        THEN Model(m.sign_bit,
                   [k \in 1..e |-> IF k = i THEN ~m.exponent_bits[k] ELSE m.exponent_bits[k]],
                   m.significand_bits)
        ELSE Model(m.sign_bit,
                   m.exponent_bits,
                   [k \in 1..Len(m.significand_bits) |->
                       IF k = i - e THEN ~m.significand_bits[k] ELSE m.significand_bits[k]])

(***************************************************************************)
(* C1.  Region lengths.                                                    *)
(***************************************************************************)
\* C1: in every state reachable by update messages, whatever widths they
\* carry, the exponent region has 1 to 11 bits and the significand region 1
\* to 52 bits.
C1_RegionLengths == ValidWidths

(***************************************************************************)
(* C2.  Special values.                                                    *)
(***************************************************************************)
\* C2: for valid widths, an all-true exponent decodes to NaN when any
\* significand bit is true, else to +Infinity or -Infinity by the sign bit;
\* and a NaN or an infinity is decoded only from an all-true exponent.
C2_SpecialValues ==
    (rendered /\ ValidWidths) =>
        /\ AllTrue(exponent_bits) =>
              /\ ~shown.overflow
              /\ IF AnyTrue(significand_bits)
                 THEN IsNaN(shown.bits)
                 ELSE IF sign_bit THEN IsMinusInf(shown.bits) ELSE IsPlusInf(shown.bits)
        /\ (IsNaN(shown.bits) \/ IsPlusInf(shown.bits) \/ IsMinusInf(shown.bits))
              => AllTrue(exponent_bits)

C2_Witness ==
    /\ rendered /\ ValidWidths
    /\ Len(exponent_bits) = 3 /\ Len(significand_bits) = 7
    /\ AllTrue(exponent_bits) /\ sign_bit
    /\ significand_bits[7] /\ ~significand_bits[1]
    /\ IsNaN(shown.bits)

(***************************************************************************)
(* C3.  Packing of the non-special encodings.                              *)
(***************************************************************************)
\* C3: for valid widths and an exponent that is not all true, the decoded
\* pattern is sign * 2^63 + X * 2^52 + sig_raw * 2^(52 - s), with
\* X = exp_raw - (2^(e-1) - 1) + 1023 when exp_raw # 0 and X = 0 otherwise.
C3_Packing ==
    (rendered /\ ValidWidths /\ ~AllTrue(exponent_bits)) =>
        LET x == ExpectedField
        IN  /\ x \in 0..2047
            /\ shown.bits = Pack(sign_bit, x, significand_bits)

C3_Witness ==
    /\ rendered
    /\ Len(exponent_bits) = 5 /\ Len(significand_bits) = 10
    /\ Raw(exponent_bits) = 16 /\ sign_bit
    /\ significand_bits[10] /\ ~significand_bits[1]
    /\ shown.bits = {63, 62, 42}

(***************************************************************************)
(* C4.  Native widths.                                                     *)
(***************************************************************************)
\* C4 as claimed: with 11 exponent and 52 significand bits the decoded
\* pattern is the 64 bits sign || exponent || significand for every content,
\* NaN payloads included.
C4_NativeReinterpretation ==
    (rendered /\ NativeWidths) => shown.bits = NativePattern

\* C4 as amended: with 11 exponent and 52 significand bits the decoded
\* pattern is the 64 bits sign || exponent || significand for every content
\* that is not a NaN encoding; for a NaN encoding (exponent all true, some
\* significand bit true) the result is a NaN, and the same one whatever the
\* sign bit and the payload.
C4_NativeExceptNaN ==
    (rendered /\ NativeWidths) =>
        /\ ~shown.overflow
        /\ IF AllTrue(exponent_bits) /\ AnyTrue(significand_bits)
           THEN IsNaN(shown.bits) /\ shown.bits = 51..62
           ELSE shown.bits = NativePattern

C4_Witness ==
    /\ rendered /\ NativeWidths
    /\ Raw(exponent_bits) = 1024
    /\ ~AnyTrue(significand_bits) /\ ~sign_bit
    /\ shown.bits = {62}

(***************************************************************************)
(* C5.  A toggle past the end does nothing.                                *)
(***************************************************************************)
\* C5: handling ToggleBit(i) with i >= 1 + len(exponent) + len(significand)
\* leaves the sign bit, both regions' contents and both lengths unchanged.
C5_OutOfRangeToggle ==
    (last.type = "ToggleBit" /\ last.arg >= TotalBits(prev)) => model = prev

C5_Witness ==
    /\ last.type = "ToggleBit" /\ last.arg >= TotalBits(prev)
    /\ last2.type = "ToggleBit" /\ last2.arg = TotalBits(prev) - 1
    /\ AnyTrue(significand_bits)
    /\ model = prev

(***************************************************************************)
(* C6.  Toggling twice.                                                    *)
(***************************************************************************)
\* C6: handling ToggleBit(i) twice in a row, for any i, returns the whole
\* model to the state before the first of the two.
C6_ToggleInvolution ==
    (last.type = "ToggleBit" /\ last2 = last) => model = prev2

C6_Witness ==
    /\ last.type = "ToggleBit" /\ last2 = last
    /\ last.arg \in 1..(TotalBits(prev) - 1)
    /\ model # prev
    /\ model = prev2

(***************************************************************************)
(* C7.  Resize.                                                            *)
(***************************************************************************)
\* C7: SetExpSize(n) with n in 1..11 (SetSigSize(n) with n in 1..52) sets
\* that region's length to n, keeps the bits below min(old length, n), makes
\* the bits from the old length on false, and leaves the sign bit and the
\* other region alone; so shrinking the exponent from 11 to 4 and growing it
\* back to 11 keeps bits 0..3 and leaves bits 4..10 false.
C7_Resize ==
    /\ (last.type = "SetExpSize" /\ last.arg \in 1..11) =>
          /\ ResizedTo(prev.exponent_bits, exponent_bits, last.arg)
          /\ sign_bit = prev.sign_bit
          /\ significand_bits = prev.significand_bits
    /\ (last.type = "SetSigSize" /\ last.arg \in 1..52) =>
          /\ ResizedTo(prev.significand_bits, significand_bits, last.arg)
          /\ sign_bit = prev.sign_bit
          /\ exponent_bits = prev.exponent_bits
    /\ (/\ last = Msg("SetExpSize", 11)
        /\ last2 = Msg("SetExpSize", 4)
        /\ Len(prev2.exponent_bits) = 11) =>
          /\ Len(exponent_bits) = 11
          /\ \A i \in 1..4 : exponent_bits[i] = prev2.exponent_bits[i]
          /\ \A i \in 5..11 : ~exponent_bits[i]

C7_Witness ==
    /\ last = Msg("SetExpSize", 11)
    /\ last2 = Msg("SetExpSize", 4)
    /\ Len(prev2.exponent_bits) = 11
    /\ prev2.exponent_bits[1] /\ prev2.exponent_bits[5]
    /\ exponent_bits[1] /\ ~exponent_bits[5]

(***************************************************************************)
(* C8.  Signed zero.                                                       *)
(***************************************************************************)
\* C8: for valid widths, all-false exponent and significand bits decode to
\* +0.0 (pattern 0) with the sign bit false and to -0.0 (pattern 2^63) with
\* it true; the initial model has 11 and 52 bits, all false, and value +0.0.
C8_SignedZero ==
    /\ (rendered /\ ValidWidths /\ ~AnyTrue(exponent_bits) /\ ~AnyTrue(significand_bits))
          => /\ ~shown.overflow
             /\ shown.bits = IF sign_bit THEN {63} ELSE {}
    /\ Len(init.exponent_bits) = 11 /\ Len(init.significand_bits) = 52
    /\ ~init.sign_bit /\ ~AnyTrue(init.exponent_bits) /\ ~AnyTrue(init.significand_bits)
    /\ (rendered /\ model = init) => shown.bits = {}

C8_Witness ==
    /\ rendered
    /\ Len(exponent_bits) = 4 /\ Len(significand_bits) = 9
    /\ ~AnyTrue(exponent_bits) /\ ~AnyTrue(significand_bits)
    /\ sign_bit
    /\ shown.bits = {63}

(***************************************************************************)
(* C9.  Flat-index addressing.                                             *)
(***************************************************************************)
\* C9: ToggleBit(i) with i < 1 + e + s, e and s the lengths at the time of
\* the toggle, flips the sign bit if i = 0, exponent bit i - 1 if
\* 1 <= i <= e, significand bit i - 1 - e otherwise, and nothing else.
C9_FlatIndex ==
    (last.type = "ToggleBit" /\ last.arg < TotalBits(prev)) =>
        model = FlippedAt(prev, last.arg)

C9_Witness ==
    /\ last = Msg("ToggleBit", 5)
    /\ last2 = Msg("SetExpSize", 4)
    /\ Len(prev.significand_bits) = 52
    /\ significand_bits[1] # prev.significand_bits[1]
    /\ exponent_bits = prev.exponent_bits

(***************************************************************************)
(* C10.  The decoder is total and its fields do not collide.               *)
(***************************************************************************)
\* C10: for valid widths no step of the decoder overflows; and when the
\* exponent is neither all false nor all true, the exponent term is X * 2^52
\* with X = exp_raw + 1023 - (2^(e-1) - 1) in 1..2046, the significand term
\* is below 2^52 and the sign term is 0 or 2^63, so the result is a normal
\* double: not zero, subnormal, infinite or NaN.
C10_TotalAndDisjoint ==
    (rendered /\ ValidWidths) =>
        /\ ~shown.overflow
        /\ (AnyTrue(exponent_bits) /\ ~AllTrue(exponent_bits)) =>
              LET x == ExpectedField
                  t == terms(model)
              IN  /\ x \in 1..2046
                  /\ t.exp = {52 + i : i \in Digits(x)}
                  /\ t.sig \subseteq 0..51
                  /\ t.sign \subseteq {63}
                  /\ IsNormalF64(shown.bits)

C10_Witness ==
    /\ rendered
    /\ Len(exponent_bits) = 11 /\ Len(significand_bits) = 52
    /\ Raw(exponent_bits) = 2046
    /\ AllTrue(significand_bits) /\ sign_bit
    /\ shown.bits = (0..63) \ {52}

====
